---- MODULE Spec2Model ----
(***************************************************************************)
(* Report lifecycle engine of brp-reports-server: the /report, /auth,      *)
(* /api/reports and /api/action handlers over the two in-memory arrays,    *)
(* with the webhook dispatch and the GitHub ban-list synchronisation.      *)
(***************************************************************************)
EXTENDS Integers, Sequences, FiniteSets, TLC

(***************************************************************************)
(* Bounds of the model.                                                    *)
(***************************************************************************)
MaxReports == 2

(***************************************************************************)
(* JavaScript values as they arrive in a parsed JSON body.  A text is a    *)
(* sequence of one-character strings; a number is finite, NaN or Infinity. *)
(***************************************************************************)
Fin(n) == [k |-> "fin", n |-> n]
NaN == [k |-> "nan", n |-> 0]
Infinity == [k |-> "inf", n |-> 0]

undefined == [type |-> "undefined", str |-> <<>>, num |-> NaN]
null == [type |-> "object", str |-> <<"null">>, num |-> NaN]
JsNum(x) == [type |-> "number", str |-> <<>>, num |-> x]
JsStr(s) == [type |-> "string", str |-> s, num |-> NaN]

typeof(v) == v.type

\* !v is FALSE exactly for the truthy values
Truthy(v) ==
    CASE v.type = "undefined" -> FALSE
      [] v = null -> FALSE
      [] v.type = "string" -> v.str # <<>>
      [] v.type = "number" -> ~(v.num = NaN \/ v.num = Fin(0))
      [] OTHER -> TRUE

IsSpace(c) == c \in {" ", "\t", "\n"}

RECURSIVE TrimStart(_)
TrimStart(s) ==
    IF s # <<>> /\ IsSpace(Head(s)) THEN TrimStart(Tail(s)) ELSE s

RECURSIVE TrimEnd(_)
TrimEnd(s) ==
    IF s # <<>> /\ IsSpace(s[Len(s)]) THEN TrimEnd(SubSeq(s, 1, Len(s) - 1)) ELSE s

\* String.prototype.trim
trim(s) == TrimEnd(TrimStart(s))

Digits == <<"0", "1", "2", "3", "4", "5", "6", "7", "8", "9">>
IsDigit(c) == \E d \in 1..10 : Digits[d] = c
DigitVal(c) == (CHOOSE d \in 1..10 : Digits[d] = c) - 1

RECURSIVE Decimal(_)
Decimal(s) ==
    IF s = <<>> THEN 0 ELSE 10 * Decimal(SubSeq(s, 1, Len(s) - 1)) + DigitVal(s[Len(s)])

InfinityText == <<"I", "n", "f", "i", "n", "i", "t", "y">>

\* Number(text) on the texts the requests carry (digits, letters, spaces):
\* surrounding white space ignored, "" is 0, decimal digits are their value,
\* "Infinity" is Infinity, anything else is NaN
StringToNumber(s) ==
    LET t == trim(s) IN
    IF t = <<>> THEN Fin(0)
    ELSE IF t = InfinityText THEN Infinity
    ELSE IF \A i \in 1..Len(t) : IsDigit(t[i]) THEN Fin(Decimal(t))
    ELSE NaN

\* typeof x === 'number' ? x : Number(x)
ToNumber(v) ==
    CASE v.type = "number" -> v.num
      [] v.type = "string" -> StringToNumber(v.str)
      [] v = null -> Fin(0)
      [] OTHER -> NaN

isNaN(x) == x = NaN

HexChars == <<"0", "1", "2", "3", "4", "5", "6", "7", "8", "9", "a", "b", "c", "d", "e", "f">>

RECURSIVE ToHex(_)
\* Buffer.toString('hex'): two lowercase hex characters per byte
ToHex(bytes) ==
    IF bytes = <<>> THEN <<>>
    ELSE <<HexChars[(Head(bytes) \div 16) + 1], HexChars[(Head(bytes) % 16) + 1]>>
             \o ToHex(Tail(bytes))

(***************************************************************************)
(* Request inputs.                                                         *)
(***************************************************************************)
Body(target, reporter, context, reason) ==
    [target |-> target, reporter |-> reporter, context |-> context, reason |-> reason]

ValidBody == Body(JsStr(<<"7">>), JsNum(Fin(42)), JsStr(<<"s", " ">>), JsStr(<<" ", "r">>))

\* the bodies of POST /report: a valid one and its one-field variations
Bodies ==
    {ValidBody}
        \cup {[ValidBody EXCEPT !.target = v] :
                 v \in {undefined, null, JsStr(<<"a">>), JsStr(InfinityText)}}
        \cup {[ValidBody EXCEPT !.reporter = v] :
                 v \in {undefined, null, JsStr(<<"x">>)}}
        \cup {[ValidBody EXCEPT !.context = v] :
                 v \in {undefined, JsStr(<<>>), JsStr(<<" ">>), JsNum(Fin(5))}}
        \cup {[ValidBody EXCEPT !.reason = v] : v \in {undefined}}

IPs == {"10.0.0.1"}
\* values crypto.randomBytes(8) can return
RandomBytes == {<<0, 0, 0, 0, 0, 0, 0, 161>>, <<0, 0, 0, 0, 0, 0, 0, 178>>}
\* the instants new Date() can give
Times == {1, 2}
\* reportId values of an action request: the ids, one never issued, none
ActionIds ==
    {JsStr(ToHex(b)) : b \in RandomBytes}
        \cup {JsStr(ToHex(<<222, 173, 190, 239, 0, 0, 0, 0>>)), undefined}
PendingText == <<"p", "e", "n", "d", "i", "n", "g">>
ApprovedText == <<"a", "p", "p", "r", "o", "v", "e", "d">>
DeniedText == <<"d", "e", "n", "i", "e", "d">>
ActionVals == {JsStr(ApprovedText), JsStr(DeniedText), JsStr(<<"b", "a", "n">>), undefined}

Passwords == {undefined, JsStr(<<"p">>), JsStr(<<"x">>)}

\* actionedAt of a report that has none
NoTime == -1

(***************************************************************************)
(* process.env as read at start-up, and CONFIG as computed from it.        *)
(***************************************************************************)
Env(enabled, token, reportsHook, actionsHook, loginHashes) ==
    [GITHUB_ENABLED |-> enabled, GITHUB_TOKEN |-> token,
     REPORTS_WEBHOOK |-> reportsHook, ACTIONS_WEBHOOK |-> actionsHook,
     LOGIN_HASHES |-> loginHashes]

TrueText == <<"t", "r", "u", "e">>
FalseText == <<"f", "a", "l", "s", "e">>
HookA == JsStr(<<"h", "t", "t", "p", ":", "A">>)
HookB == JsStr(<<"h", "t", "t", "p", ":", "B">>)

\* a full configuration, and the one of a server started with no variable set
FullEnv ==
    Env(JsStr(TrueText), JsStr(<<"k">>), HookA, HookB,
        JsStr(<<"$", "1", "p", ";", " ", "$", "2", "q">>))
DefaultEnv == Env(undefined, undefined, undefined, undefined, undefined)
Envs == {FullEnv, DefaultEnv}

\* a || b
Or(a, b) == IF Truthy(a) THEN a ELSE b

VARIABLES
    env,              \* process.env
    reports,          \* let reports = []
    actionedReports,  \* let actionedReports = []
    hits,             \* the rate limiter's store: requests counted per address
    now,              \* the clock read by new Date()
    nextRef,          \* the next report object to be allocated
    webhookCalls,     \* the FireWebhook calls of the handler that ran last, in flight
    banListCalls,     \* the addToGitHubBanList calls made by the handler that ran last
    syncs,            \* the addToGitHubBanList calls suspended at an await
    ghFile,           \* the file at GITHUB_FILE_PATH in the repository
    res               \* the response written by the handler that ran last

vars ==
    <<env, reports, actionedReports, hits, now, nextRef, webhookCalls, banListCalls,
      syncs, ghFile, res>>

CONFIG ==
    [GITHUB_ENABLED |-> Or(env.GITHUB_ENABLED, JsStr(FalseText)) = JsStr(TrueText),
     GITHUB_TOKEN |-> Or(env.GITHUB_TOKEN, JsStr(<<>>)),
     REPORTS_WEBHOOK |-> Or(env.REPORTS_WEBHOOK, JsStr(<<>>)),
     ACTIONS_WEBHOOK |-> Or(env.ACTIONS_WEBHOOK, JsStr(<<>>))]

\* REPORT_RATE_LIMIT.max
RateLimitMax == 5
\* the requests over the limit one address makes in a window
MaxThrottled == 2

\* a client made whenever the integration is enabled
octokitNoToken == CONFIG.GITHUB_ENABLED

\* octokit is a client exactly when the integration is enabled and has a token
octokit == CONFIG.GITHUB_ENABLED /\ Truthy(CONFIG.GITHUB_TOKEN)

(***************************************************************************)
(* Responses and webhook messages.                                         *)
(***************************************************************************)
Response(route, status, error, message, report_id) ==
    [route |-> route, status |-> status, error |-> error, message |-> message,
     report_id |-> report_id, pending |-> <<>>, actioned |-> <<>>]

NoResponse == Response("", 0, "", <<>>, <<>>)

\* the text of the submission notice: the title and the pending count
NewReportText(total) ==
    [title |-> "New Report", total |-> total, bodyText |-> <<>>,
     target |-> NaN, reporter |-> NaN]

UndefinedText == <<"u", "n", "d", "e", "f", "i", "n", "e", "d">>

\* `${v}` in a template literal
TemplateText(v) == IF v.type = "undefined" THEN UndefinedText ELSE v.str

\* report.body: a report object has no such property
body(report) == undefined

\* the text of the action notice, the same in both branches of the handler
ActionText(BodyText, Target, Reporter) ==
    [title |-> "Approved", total |-> 0, bodyText |-> TemplateText(BodyText),
     target |-> Target, reporter |-> Reporter]

\* the call made twice
FireWebhookTwice(Content, URL) ==
    webhookCalls \o <<[Content |-> Content, URL |-> URL], [Content |-> Content, URL |-> URL]>>

\* FireWebhook(Content, URL) is called and not awaited
FireWebhook(Content, URL) == Append(webhookCalls, [Content |-> Content, URL |-> URL])

\* generateReportId
generateReportId(bytes) == ToHex(bytes)

NoFile == [kind |-> "absent", has_list |-> FALSE, banned_users |-> <<>>, last_updated |-> 0]

Init ==
    /\ env \in Envs
    /\ reports = <<>>
    /\ actionedReports = <<>>
    /\ hits = [ip \in IPs |-> 0]
    /\ now = 1
    /\ nextRef = 1
    /\ webhookCalls = <<>>
    /\ banListCalls = <<>>
    /\ syncs = {}
    /\ ghFile = NoFile
    /\ res = NoResponse

\* Node runs one handler at a time: the next one starts when the last one's
\* response and webhook requests have been handed to the network
Idle == res = NoResponse /\ webhookCalls = <<>> /\ banListCalls = <<>>

Sent ==
    /\ ~Idle
    /\ res' = NoResponse
    /\ webhookCalls' = <<>>
    /\ banListCalls' = <<>>
    /\ UNCHANGED <<env, reports, actionedReports, hits, now, nextRef, syncs, ghFile>>

(***************************************************************************)
(* FireWebhook after the call: the POST settles.                           *)
(***************************************************************************)
\* how fetch(URL) can settle: a 2xx response, another response, a rejection
\* with one of the codes the catch tells apart; for the empty URL of an unset
\* variable only a TypeError, with no request made
FetchOutcomes(URL) ==
    IF URL = JsStr(<<>>) THEN {"TypeError"}
    ELSE {"ok", "not ok", "ENOTFOUND", "ECONNREFUSED", "ETIMEDOUT"}

AllFetchOutcomes == FetchOutcomes(JsStr(<<>>)) \cup FetchOutcomes(HookA)

\* the failure passed on to the handler that made the call
AfterFetchRethrown(outcome) ==
    IF outcome = "ok" \/ res = NoResponse THEN res
    ELSE Response(res.route, 500, outcome, <<>>, <<>>)

\* the response after the try and the catch of FireWebhook: they log and
\* throw nothing
AfterFetch(outcome) == res

FireWebhookSettles(outcome) ==
    /\ webhookCalls # <<>>
    /\ outcome \in FetchOutcomes(Head(webhookCalls).URL)
    /\ webhookCalls' = Tail(webhookCalls)
    /\ res' = AfterFetch(outcome)
    /\ UNCHANGED <<env, reports, actionedReports, hits, now, nextRef, banListCalls,
                   syncs, ghFile>>

(***************************************************************************)
(* POST /report behind reportLimiter.                                      *)
(***************************************************************************)
MissingFields(target, reporter, context) ==
    \/ target = undefined \/ target = null
    \/ reporter = undefined \/ reporter = null
    \/ ~Truthy(context)

\* the check without the test of context
InvalidTypesNumbersOnly(target, reporter, context) ==
    \/ isNaN(ToNumber(target))
    \/ isNaN(ToNumber(reporter))

InvalidTypes(target, reporter, context) ==
    \/ isNaN(ToNumber(target))
    \/ isNaN(ToNumber(reporter))
    \/ typeof(context) # "string"

NewReport(bytes, target, reporter, context, reason, ip) ==
    [ref |-> nextRef,
     id |-> generateReportId(bytes),
     target |-> ToNumber(target),
     reporter |-> ToNumber(reporter),
     context |-> trim(context.str),
     reason |-> trim(reason.str),
     timestamp |-> now,
     ip |-> ip,
     status |-> PendingText,
     actionedAt |-> NoTime]

\* the report put in front
pushReportFront(report) == <<report>> \o reports

\* the report pushed twice
pushReportTwice(report) == Append(Append(reports, report), report)

\* reports.push(report)
pushReport(report) == Append(reports, report)

\* the handler proper, reached when the limiter lets the request through
ReportHandler(ip, target, reporter, context, reason, bytes) ==
    IF MissingFields(target, reporter, context) THEN
        /\ res' = Response("/report", 400,
                           "Missing required fields: target, reporter, context, reason",
                           <<>>, <<>>)
        /\ UNCHANGED <<reports, nextRef, webhookCalls, banListCalls>>
    ELSE IF InvalidTypes(target, reporter, context) THEN
        /\ res' = Response("/report", 400,
                           "Invalid field types: target and reporter must be valid numbers, context must be string",
                           <<>>, <<>>)
        /\ UNCHANGED <<reports, nextRef, webhookCalls, banListCalls>>
    ELSE IF typeof(reason) # "string" THEN
        \* reason.trim() throws a TypeError; Express answers 500
        /\ res' = Response("/report", 500, "TypeError", <<>>, <<>>)
        /\ UNCHANGED <<reports, nextRef, webhookCalls, banListCalls>>
    ELSE
        LET report == NewReport(bytes, target, reporter, context, reason, ip) IN
        /\ nextRef <= MaxReports
        /\ reports' = pushReport(report)
        /\ nextRef' = nextRef + 1
        /\ webhookCalls' = FireWebhook(NewReportText(Len(reports')), CONFIG.REPORTS_WEBHOOK)
        /\ banListCalls' = banListCalls
        /\ res' = Response("/report", 201, "",
                           <<"Report", report.id, "submitted successfully!">>, report.id)

\* the limit reached one request early
LimitedAtMax(totalHits) == totalHits >= RateLimitMax

\* the limiter refuses a request whose count in the window is over max
Limited(totalHits) == totalHits > RateLimitMax

Submit(ip, target, reporter, context, reason, bytes) ==
    /\ Idle
    /\ hits[ip] < RateLimitMax + MaxThrottled
    /\ hits' = [hits EXCEPT ![ip] = @ + 1]
    /\ IF Limited(hits'[ip]) THEN
           /\ res' = Response("/report", 429,
                              "Too many reports from this IP, please try again later.",
                              <<>>, <<>>)
           /\ UNCHANGED <<reports, nextRef, webhookCalls, banListCalls>>
       ELSE ReportHandler(ip, target, reporter, context, reason, bytes)
    /\ UNCHANGED <<env, actionedReports, now, syncs, ghFile>>

(***************************************************************************)
(* GET /api/reports.                                                       *)
(***************************************************************************)
\* the listing refused to a request that carries no accepted password
ListReportsGated ==
    /\ Idle
    /\ res' = Response("/api/reports", 401, "Invalid password!", <<>>, <<>>)
    /\ UNCHANGED <<env, reports, actionedReports, hits, now, nextRef,
                   webhookCalls, banListCalls, syncs, ghFile>>

ListReports ==
    /\ Idle
    /\ res' = [Response("/api/reports", 200, "", <<>>, <<>>)
                  EXCEPT !.pending = reports, !.actioned = actionedReports]
    /\ UNCHANGED <<env, reports, actionedReports, hits, now, nextRef,
                   webhookCalls, banListCalls, syncs, ghFile>>

(***************************************************************************)
(* addToGitHubBanList: the file and its version token, the two requests.   *)
(***************************************************************************)
\* the blob sha GitHub returns with a file: a hash of its content
Sha(file) == [defined |-> TRUE, of |-> file]
NoSha == [defined |-> FALSE, of |-> NoFile]

\* JSON.parse(currentFile).banned_users || []
ParsedBannedUsers(file) == IF file.has_list THEN file.banned_users ELSE <<>>

newBanEntry(reportData) ==
    [target_id |-> reportData.target,
     reporter_id |-> reportData.reporter,
     reason |-> reportData.reason,
     context |-> reportData.context,
     date_added |-> now,
     report_id |-> reportData.id]

\* JSON.stringify({banned_users, last_updated})
newContent(bannedUsers) ==
    [kind |-> "json", has_list |-> TRUE, banned_users |-> bannedUsers, last_updated |-> now]

\* the call is suspended at getContent
SyncStarted(reportData) ==
    [report |-> reportData, pc |-> "getContent", sha |-> NoSha, content |-> NoFile]

\* what getContent gave: "ok" with the file, "throws" for a 404 or any other
\* failure; a file that does not parse throws after currentSha is assigned
GetContentResults ==
    IF ghFile.kind = "absent" THEN {"throws"} ELSE {"ok", "throws"}

\* an entry is pushed only when the list has none of the report
GetContentReturnsOnce(sync, result) ==
    LET currentSha == IF result = "ok" THEN Sha(ghFile) ELSE NoSha
        bannedUsers ==
            IF result = "ok" /\ ghFile.kind = "json" THEN ParsedBannedUsers(ghFile) ELSE <<>>
        pushed ==
            IF \E i \in DOMAIN bannedUsers : bannedUsers[i].report_id = sync.report.id
            THEN bannedUsers
            ELSE Append(bannedUsers, newBanEntry(sync.report))
    IN
    /\ Idle
    /\ sync \in syncs
    /\ sync.pc = "getContent"
    /\ result \in GetContentResults
    /\ syncs' = (syncs \ {sync}) \cup
                    {[sync EXCEPT !.pc = "createOrUpdateFileContents",
                                  !.sha = currentSha,
                                  !.content = newContent(pushed)]}
    /\ UNCHANGED <<env, reports, actionedReports, hits, now, nextRef,
                   webhookCalls, banListCalls, ghFile, res>>

\* getContent answers; the entry is appended and createOrUpdateFileContents is called
GetContentReturns(sync, result) ==
    LET currentSha == IF result = "ok" THEN Sha(ghFile) ELSE NoSha
        bannedUsers ==
            IF result = "ok" /\ ghFile.kind = "json" THEN ParsedBannedUsers(ghFile) ELSE <<>>
        pushed == Append(bannedUsers, newBanEntry(sync.report))
    IN
    /\ Idle
    /\ sync \in syncs
    /\ sync.pc = "getContent"
    /\ result \in GetContentResults
    /\ syncs' = (syncs \ {sync}) \cup
                    {[sync EXCEPT !.pc = "createOrUpdateFileContents",
                                  !.sha = currentSha,
                                  !.content = newContent(pushed)]}
    /\ UNCHANGED <<env, reports, actionedReports, hits, now, nextRef,
                   webhookCalls, banListCalls, ghFile, res>>

\* every write committed, whatever sha it carries
AcceptsAny(sha) == TRUE

\* GitHub commits a write when the file is new, or when sha is the sha of the
\* file as it stands
Accepts(sha) ==
    IF ghFile.kind = "absent" THEN TRUE ELSE sha = Sha(ghFile)

ActionOk(action) ==
    Response("/api/action", 200, "", <<"Report", action, "successfull!">>, <<>>)

\* a write that is not committed tried again from getContent
PutReturnsRetries(sync, delivered) ==
    /\ Idle
    /\ sync \in syncs
    /\ sync.pc = "createOrUpdateFileContents"
    /\ IF delivered /\ Accepts(sync.sha) THEN
           /\ ghFile' = sync.content
           /\ syncs' = syncs \ {sync}
           /\ res' = ActionOk(sync.report.status)
       ELSE
           /\ ghFile' = ghFile
           /\ syncs' = (syncs \ {sync}) \cup {SyncStarted(sync.report)}
           /\ res' = res
    /\ UNCHANGED <<env, reports, actionedReports, hits, now, nextRef, webhookCalls, banListCalls>>

\* a write that is not committed answered with an error
PutReturnsOrFails(sync, delivered) ==
    /\ Idle
    /\ sync \in syncs
    /\ sync.pc = "createOrUpdateFileContents"
    /\ ghFile' = IF delivered /\ Accepts(sync.sha) THEN sync.content ELSE ghFile
    /\ syncs' = syncs \ {sync}
    /\ res' = IF delivered /\ Accepts(sync.sha) THEN ActionOk(sync.report.status)
              ELSE Response("/api/action", 500, "Internal Server Error", <<>>, <<>>)
    /\ UNCHANGED <<env, reports, actionedReports, hits, now, nextRef, webhookCalls, banListCalls>>

\* createOrUpdateFileContents answers (committed, or rejected or failed: the
\* error is caught and logged); addToGitHubBanList returns and the action
\* handler that awaited it responds
PutReturns(sync, delivered) ==
    /\ Idle
    /\ sync \in syncs
    /\ sync.pc = "createOrUpdateFileContents"
    /\ ghFile' = IF delivered /\ Accepts(sync.sha) THEN sync.content ELSE ghFile
    /\ syncs' = syncs \ {sync}
    /\ res' = ActionOk(sync.report.status)
    /\ UNCHANGED <<env, reports, actionedReports, hits, now, nextRef, webhookCalls, banListCalls>>

(***************************************************************************)
(* POST /api/action.                                                       *)
(***************************************************************************)
\* the index of the first report, whatever its id
findIndexFirst(reportId) == IF Len(reports) > 0 THEN 1 ELSE 0

\* reports.findIndex(r => r.id === reportId), 0 when there is none
findIndex(reportId) ==
    LET found == {i \in 1..Len(reports) :
                     typeof(reportId) = "string" /\ reports[i].id = reportId.str}
    IN IF found = {} THEN 0 ELSE CHOOSE i \in found : \A j \in found : i <= j

\* the report left in place
spliceNone(reportIndex) == reports

\* reports.splice(reportIndex, 1)
splice(reportIndex) ==
    SubSeq(reports, 1, reportIndex - 1) \o SubSeq(reports, reportIndex + 1, Len(reports))

\* the timestamp set anew along with the status and the instant
ActionedRestamped(report, action) ==
    [report EXCEPT !.status = action.str, !.actionedAt = now, !.timestamp = now]

\* the status set and the instant left out
ActionedUnstamped(report, action) == [report EXCEPT !.status = action.str]

\* the status of the approve branch set for either decision
ActionedApproved(report, action) ==
    [report EXCEPT !.status = ApprovedText, !.actionedAt = now]

\* report.status = action; report.actionedAt = new Date().toISOString()
Actioned(report, action) ==
    [report EXCEPT !.status = action.str, !.actionedAt = now]

\* the array replaced by the one report
pushActionedOver(report) == <<report>>

\* actionedReports.push(report)
pushActioned(report) == Append(actionedReports, report)

\* the test without the list of decisions
InvalidActionMissingOnly(reportId, action) == ~Truthy(reportId) \/ ~Truthy(action)

\* !reportId || !action || !['approved', 'denied'].includes(action)
InvalidAction(reportId, action) ==
    \/ ~Truthy(reportId)
    \/ ~Truthy(action)
    \/ action \notin {JsStr(ApprovedText), JsStr(DeniedText)}

\* the branch taken for either decision
EitherBranch(action) == TRUE

\* the branch taken for a denial
DeniedBranch(action) == action = JsStr(DeniedText)

\* if (action === 'approved')
ApprovedBranch(action) == action = JsStr(ApprovedText)

\* addToGitHubBanList(report) is called
addToGitHubBanList(reportData) == Append(banListCalls, reportData)

Action(reportId, action) ==
    /\ Idle
    /\ IF InvalidAction(reportId, action) THEN
           /\ res' = Response("/api/action", 400, "Invalid action or report ID!", <<>>, <<>>)
           /\ UNCHANGED <<reports, actionedReports, webhookCalls, banListCalls, syncs>>
       ELSE IF findIndex(reportId) = 0 THEN
           /\ res' = Response("/api/action", 404, "Report not found!", <<>>, <<>>)
           /\ UNCHANGED <<reports, actionedReports, webhookCalls, banListCalls, syncs>>
       ELSE
           LET reportIndex == findIndex(reportId)
               report == Actioned(reports[reportIndex], action)
               last == actionedReports'[Len(actionedReports')]
           IN
           /\ actionedReports' = pushActioned(report)
           /\ reports' = splice(reportIndex)
           /\ webhookCalls' = FireWebhook(ActionText(body(last), last.target, last.reporter),
                                          CONFIG.ACTIONS_WEBHOOK)
           /\ banListCalls' = IF ApprovedBranch(action) THEN addToGitHubBanList(report)
                              ELSE banListCalls
           /\ IF ApprovedBranch(action) /\ CONFIG.GITHUB_ENABLED /\ octokit THEN
                  \* await addToGitHubBanList(report): the response waits
                  /\ syncs' = syncs \cup {SyncStarted(report)}
                  /\ res' = res
              ELSE
                  /\ syncs' = syncs
                  /\ res' = ActionOk(action.str)
    /\ UNCHANGED <<env, hits, now, nextRef, ghFile>>

(***************************************************************************)
(* POST /auth.                                                             *)
(***************************************************************************)
RECURSIVE split(_, _)
\* String.prototype.split on a one-character separator
split(s, sep) ==
    IF \E i \in 1..Len(s) : s[i] = sep THEN
        LET i == CHOOSE i \in 1..Len(s) : s[i] = sep /\ \A j \in 1..(i - 1) : s[j] # sep
        IN <<SubSeq(s, 1, i - 1)>> \o split(SubSeq(s, i + 1, Len(s)), sep)
    ELSE <<s>>

\* bcrypt.compare: a hash is "$", a salt character and the password hashed
\* with it; a password that is no text makes it throw, which is caught
bcryptCompare(password, hash) ==
    /\ typeof(password) = "string"
    /\ Len(hash) >= 2
    /\ hash[1] = "$"
    /\ SubSeq(hash, 3, Len(hash)) = password.str

\* the first hash compared and no other
FirstOnly(password, hashes) ==
    IF hashes = <<>> THEN FALSE ELSE bcryptCompare(password, Head(hashes))

RECURSIVE FirstMatch(_, _)
\* for (const hash of hashes) { if (await bcrypt.compare(...)) return true }
FirstMatch(password, hashes) ==
    IF hashes = <<>> THEN FALSE
    ELSE IF bcryptCompare(password, Head(hashes)) THEN TRUE
    ELSE FirstMatch(password, Tail(hashes))

Trimmed(parts) == [i \in 1..Len(parts) |-> trim(parts[i])]
NonEmpty(h) == Len(h) > 0

ValidatePassword(password) ==
    LET loginHashes == env.LOGIN_HASHES IN
    IF ~Truthy(loginHashes) THEN FALSE
    ELSE LET hashes == SelectSeq(Trimmed(split(loginHashes.str, ";")), NonEmpty) IN
         IF Len(hashes) = 0 THEN FALSE
         ELSE FirstMatch(password, hashes)

Auth(password) ==
    /\ Idle
    /\ res' = IF ~Truthy(password) THEN
                  Response("/auth", 400, "Password required!", <<>>, <<>>)
              ELSE IF ValidatePassword(password) THEN
                  Response("/auth", 200, "", <<>>, <<>>)
              ELSE Response("/auth", 401, "Invalid password!", <<>>, <<>>)
    /\ UNCHANGED <<env, reports, actionedReports, hits, now, nextRef,
                   webhookCalls, banListCalls, syncs, ghFile>>

\* time passes between two handlers
Tick ==
    /\ Idle
    /\ now + 1 \in Times
    /\ now' = now + 1
    /\ UNCHANGED <<env, reports, actionedReports, hits, nextRef,
                   webhookCalls, banListCalls, syncs, ghFile, res>>

(***************************************************************************)
(* The server: requests with a valid body, the ban-list requests GitHub    *)
(* answers, time.                                                          *)
(***************************************************************************)
Next ==
    \/ \E ip \in IPs, bytes \in RandomBytes :
          Submit(ip, ValidBody.target, ValidBody.reporter, ValidBody.context,
                 ValidBody.reason, bytes)
    \/ ListReports
    \/ \E reportId \in ActionIds, action \in ActionVals : Action(reportId, action)
    \/ \E sync \in syncs, result \in {"ok", "throws"} : GetContentReturns(sync, result)
    \/ \E sync \in syncs, delivered \in BOOLEAN : PutReturns(sync, delivered)
    \/ \E password \in Passwords : Auth(password)
    \/ \E outcome \in AllFetchOutcomes : FireWebhookSettles(outcome)
    \/ Tick
    \/ Sent

Spec == Init /\ [][Next]_vars

(***************************************************************************)
(* The server as configured by default (no GitHub integration), taking     *)
(* every body of POST /report.                                             *)
(***************************************************************************)
InitDefault == Init /\ env = DefaultEnv

\* the one value crypto.randomBytes(8) returns here
RequestBytes == <<0, 0, 0, 0, 0, 0, 0, 161>>

NextRequests ==
    \/ \E ip \in IPs, b \in Bodies :
          Submit(ip, b.target, b.reporter, b.context, b.reason, RequestBytes)
    \/ ListReports
    \/ \E reportId \in ActionIds, action \in ActionVals : Action(reportId, action)
    \/ \E password \in Passwords : Auth(password)
    \/ Sent

SpecRequests == InitDefault /\ [][NextRequests]_vars

(***************************************************************************)
(* The collections from the state one accepted submit has left: a report   *)
(* is pending, so that an action can take one out from between two others. *)
(***************************************************************************)
InitOrder ==
    /\ env = DefaultEnv
    /\ now = 1
    /\ nextRef = 1
    /\ reports = <<[NewReport(RequestBytes, ValidBody.target, ValidBody.reporter,
                              ValidBody.context, ValidBody.reason, "10.0.0.1")
                       EXCEPT !.ref = 0]>>
    /\ actionedReports = <<>>
    /\ hits = [ip \in IPs |-> 1]
    /\ webhookCalls = <<>>
    /\ banListCalls = <<>>
    /\ syncs = {}
    /\ ghFile = NoFile
    /\ res = NoResponse

NextOrder ==
    \/ \E ip \in IPs, bytes \in RandomBytes :
          Submit(ip, ValidBody.target, ValidBody.reporter, ValidBody.context,
                 ValidBody.reason, bytes)
    \/ ListReports
    \/ \E reportId \in ActionIds, action \in ActionVals : Action(reportId, action)
    \/ Sent

SpecOrder == InitOrder /\ [][NextOrder]_vars

(***************************************************************************)
(* The notices: every request, with the webhooks set and unset, and the    *)
(* POSTs settling.                                                         *)
(***************************************************************************)
HooksEnv == Env(undefined, undefined, HookA, HookB, undefined)

InitNotices ==
    /\ env \in {DefaultEnv, HooksEnv}
    /\ reports = <<>>
    /\ actionedReports = <<>>
    /\ hits = [ip \in IPs |-> 0]
    /\ now = 1
    /\ nextRef = 1
    /\ webhookCalls = <<>>
    /\ banListCalls = <<>>
    /\ syncs = {}
    /\ ghFile = NoFile
    /\ res = NoResponse

NextNotices ==
    \/ NextRequests
    \/ \E outcome \in AllFetchOutcomes : FireWebhookSettles(outcome)

SpecNotices == InitNotices /\ [][NextNotices]_vars

(***************************************************************************)
(* The ban list: the server under each configuration of the integration,   *)
(* started on each kind of file the repository can hold.                   *)
(***************************************************************************)
\* enabled without a token, and switched off with a token
NoTokenEnv == Env(JsStr(TrueText), undefined, HookA, HookB, undefined)
OffEnv == Env(JsStr(FalseText), JsStr(<<"k">>), HookA, HookB, undefined)
SyncEnvs == {FullEnv, NoTokenEnv, OffEnv}

\* a file that is no JSON, and the JSON object without banned_users
GarbageFile ==
    [kind |-> "garbage", has_list |-> FALSE, banned_users |-> <<>>, last_updated |-> 0]
EmptyObjectFile ==
    [kind |-> "json", has_list |-> FALSE, banned_users |-> <<>>, last_updated |-> 0]
InitFiles == {NoFile, GarbageFile, EmptyObjectFile}

InitSync ==
    /\ env \in SyncEnvs
    /\ reports = <<>>
    /\ actionedReports = <<>>
    /\ hits = [ip \in IPs |-> 0]
    /\ now = 1
    /\ nextRef = 1
    /\ webhookCalls = <<>>
    /\ banListCalls = <<>>
    /\ syncs = {}
    /\ ghFile \in InitFiles
    /\ res = NoResponse

NextSync ==
    \/ \E ip \in IPs, bytes \in RandomBytes :
          Submit(ip, ValidBody.target, ValidBody.reporter, ValidBody.context,
                 ValidBody.reason, bytes)
    \/ \E reportId \in ActionIds, action \in ActionVals : Action(reportId, action)
    \/ \E sync \in syncs, result \in {"ok", "throws"} : GetContentReturns(sync, result)
    \/ \E sync \in syncs, delivered \in BOOLEAN : PutReturns(sync, delivered)
    \/ Sent

SpecSync == InitSync /\ [][NextSync]_vars

(***************************************************************************)
(* addToGitHubBanList on its own: called for an approved report, again and *)
(* again, each call after the last one has returned.                       *)
(***************************************************************************)
\* the entries the file may reach
MaxBanEntries == 2

ApprovedNow ==
    {Actioned(NewReport(bytes, ValidBody.target, ValidBody.reporter, ValidBody.context,
                        ValidBody.reason, "10.0.0.1"),
              JsStr(ApprovedText)) : bytes \in RandomBytes}

\* approved reports to call it with, submitted and actioned at the first instant
BanListReports == {[r EXCEPT !.timestamp = 1, !.actionedAt = 1] : r \in ApprovedNow}

InitBanList ==
    /\ env = FullEnv
    /\ reports = <<>>
    /\ actionedReports = <<>>
    /\ hits = [ip \in IPs |-> 0]
    /\ now = 1
    /\ nextRef = 1
    /\ webhookCalls = <<>>
    /\ banListCalls = <<>>
    /\ syncs = {}
    /\ ghFile \in InitFiles
    /\ res = NoResponse

\* addToGitHubBanList(reportData) runs to its first await
CallBanList(reportData) ==
    /\ Idle
    /\ syncs = {}
    /\ Len(ghFile.banned_users) < MaxBanEntries
    /\ banListCalls' = addToGitHubBanList(reportData)
    /\ syncs' = IF CONFIG.GITHUB_ENABLED /\ octokit THEN {SyncStarted(reportData)} ELSE syncs
    /\ UNCHANGED <<env, reports, actionedReports, hits, now, nextRef, webhookCalls, ghFile, res>>

NextBanList ==
    \/ \E reportData \in BanListReports : CallBanList(reportData)
    \/ \E sync \in syncs, result \in {"ok", "throws"} : GetContentReturns(sync, result)
    \/ \E sync \in syncs, delivered \in BOOLEAN : PutReturns(sync, delivered)
    \/ Tick
    \/ Sent

SpecBanList == InitBanList /\ [][NextBanList]_vars

(***************************************************************************)
(* The server under each value of LOGIN_HASHES.                            *)
(***************************************************************************)
\* unset, empty, separators and blanks only, one hash, two hashes in both
\* orders, hashes among blanks and empty entries
LoginHashes ==
    {undefined,
     JsStr(<<>>),
     JsStr(<<";">>),
     JsStr(<<" ", ";", " ">>),
     JsStr(<<"$", "1", "p">>),
     JsStr(<<"$", "1", "z", ";", "$", "2", "q">>),
     JsStr(<<"$", "2", "q", ";", "$", "1", "z">>),
     JsStr(<<" ", "$", "1", "p", " ", ";", ";", " ", "$", "2", "q">>)}

AuthPasswords == Passwords \cup {JsStr(<<"q">>), JsNum(Fin(5))}

InitAuth ==
    /\ env \in {Env(undefined, undefined, undefined, undefined, h) : h \in LoginHashes}
    /\ reports = <<>>
    /\ actionedReports = <<>>
    /\ hits = [ip \in IPs |-> 0]
    /\ now = 1
    /\ nextRef = 1
    /\ webhookCalls = <<>>
    /\ banListCalls = <<>>
    /\ syncs = {}
    /\ ghFile = NoFile
    /\ res = NoResponse

NextAuth ==
    \/ \E password \in AuthPasswords : Auth(password)
    \/ \E ip \in IPs, bytes \in RandomBytes :
          Submit(ip, ValidBody.target, ValidBody.reporter, ValidBody.context,
                 ValidBody.reason, bytes)
    \/ ListReports
    \/ \E reportId \in ActionIds, action \in ActionVals : Action(reportId, action)
    \/ Sent

SpecAuth == InitAuth /\ [][NextAuth]_vars

(***************************************************************************)
(* The limiter of POST /report within one window, with two addresses.      *)
(***************************************************************************)
LimiterIPs == {"10.0.0.1", "10.0.0.2"}
LimiterBodies == {ValidBody, [ValidBody EXCEPT !.context = undefined]}

InitLimiter ==
    /\ env = DefaultEnv
    /\ reports = <<>>
    /\ actionedReports = <<>>
    /\ hits = [ip \in LimiterIPs |-> 0]
    /\ now = 1
    /\ nextRef = 1
    /\ webhookCalls = <<>>
    /\ banListCalls = <<>>
    /\ syncs = {}
    /\ ghFile = NoFile
    /\ res = NoResponse

NextLimiter ==
    \/ \E ip \in LimiterIPs, b \in LimiterBodies, bytes \in RandomBytes :
          Submit(ip, b.target, b.reporter, b.context, b.reason, bytes)
    \/ Sent

SpecLimiter == InitLimiter /\ [][NextLimiter]_vars

(***************************************************************************)
(* Properties.                                                             *)
(***************************************************************************)
\* the reports submit has accepted, as the objects allocated so far
Accepted == 1..(nextRef - 1)

Count(list, ref) == Cardinality({i \in DOMAIN list : list[i].ref = ref})

ExactlyOne(pending, actioned) ==
    \A ref \in Accepted : Count(pending, ref) + Count(actioned, ref) = 1

ValidDecisions == {JsStr(ApprovedText), JsStr(DeniedText)}

InPending(reportId) ==
    \E i \in DOMAIN reports : typeof(reportId) = "string" /\ reports[i].id = reportId.str

\* the pending report an action request on reportId is about: the first with that id
FirstWithId(reportId) ==
    CHOOSE i \in DOMAIN reports :
        /\ reports[i].id = reportId.str
        /\ \A j \in 1..(i - 1) : reports[j].id # reportId.str

LastActioned == actionedReports[Len(actionedReports)]

\* C1: every accepted report is in exactly one of reports and actionedReports,
\* in every state and in every listing GET /api/reports has sent, also while an
\* action handler is suspended in addToGitHubBanList.
C1_ExactlyOneCollection ==
    /\ ExactlyOne(reports, actionedReports)
    /\ res.route = "/api/reports" => ExactlyOne(res.pending, res.actioned)

\* C1 witness: a listing sent while a handler awaits the ban-list sync shows
\* a pending and an actioned report.
C1_Witness ==
    /\ syncs # {}
    /\ res.route = "/api/reports"
    /\ Len(res.pending) > 0
    /\ Len(res.actioned) > 0

\* C2: every actioned report has status approved or denied and an actionedAt,
\* every pending report has status pending and no actionedAt.
C2_StatusMatchesCollection ==
    /\ \A i \in DOMAIN actionedReports :
          /\ actionedReports[i].status \in {ApprovedText, DeniedText}
          /\ actionedReports[i].actionedAt # NoTime
    /\ \A i \in DOMAIN reports :
          /\ reports[i].status = PendingText
          /\ reports[i].actionedAt = NoTime

\* C2 witness: an approved and a denied report are actioned.
C2_Witness ==
    /\ \E i \in DOMAIN actionedReports : actionedReports[i].status = ApprovedText
    /\ \E i \in DOMAIN actionedReports : actionedReports[i].status = DeniedText

\* C3: a report in actionedReports stays there as it is, status and actionedAt
\* included, and is not in reports again, whatever request is handled next.
C3_ActionedIsTerminal ==
    [][\A i \in DOMAIN actionedReports :
          /\ i \in DOMAIN actionedReports'
          /\ actionedReports'[i] = actionedReports[i]
          /\ \A j \in DOMAIN reports' : reports'[j].ref # actionedReports[i].ref]_vars

\* C3 witness: a report was actioned, time passed and a second report was
\* actioned after it.
C3_Witness ==
    /\ Len(actionedReports) = 2
    /\ actionedReports[1].actionedAt < actionedReports[2].actionedAt

\* C4: an action request with a valid decision on an id that is pending removes
\* the first report with that id from reports, appends it to actionedReports
\* with that decision as status and the instant as actionedAt, and is answered
\* 200: at once, or by the handler when it resumes from addToGitHubBanList.
C4_ActionMovesReport ==
    [][/\ \A reportId \in ActionIds, action \in ValidDecisions :
             (Action(reportId, action) /\ InPending(reportId)) =>
                 LET r == reports[FirstWithId(reportId)] IN
                 /\ Len(reports') = Len(reports) - 1
                 /\ \A j \in DOMAIN reports' : reports'[j].ref # r.ref
                 /\ Len(actionedReports') = Len(actionedReports) + 1
                 /\ actionedReports'[Len(actionedReports')] =
                        [r EXCEPT !.status = action.str, !.actionedAt = now]
                 /\ now \in Times
                 /\ \/ res' = ActionOk(action.str)
                    \/ /\ res' = NoResponse
                       /\ \E sync \in syncs' \ syncs : sync.report.ref = r.ref
       /\ \A sync \in syncs, delivered \in BOOLEAN :
             PutReturns(sync, delivered) => res' = ActionOk(sync.report.status)]_vars

\* C4 witness: a denial was answered 200 after an approval had gone through the
\* ban-list sync.
C4_Witness ==
    /\ res = ActionOk(DeniedText)
    /\ Len(actionedReports) = 2
    /\ actionedReports[1].status = ApprovedText
    /\ LastActioned.status = DeniedText
    /\ ghFile.kind = "json"

\* C5: an action request with a valid decision on an id that is not pending is
\* answered 404, changes neither collection, calls no webhook and starts no
\* ban-list sync.
C5_ActionNotFound ==
    [][\A reportId \in ActionIds, action \in ValidDecisions :
          (Action(reportId, action) /\ Truthy(reportId) /\ ~InPending(reportId)) =>
              /\ res'.status = 404
              /\ reports' = reports
              /\ actionedReports' = actionedReports
              /\ webhookCalls' = <<>>
              /\ syncs' = syncs
              /\ ghFile' = ghFile]_vars

\* C5 witness: a 404 was sent while a report is pending and the one other
\* report is actioned.
C5_Witness ==
    /\ res.route = "/api/action"
    /\ res.status = 404
    /\ Len(reports) > 0
    /\ Len(actionedReports) > 0

\* C6 as claimed: an action request that succeeds carries an id no earlier
\* successful action request carried.
C6_AtMostOneSuccessPerId ==
    [][\A reportId \in ActionIds, action \in ValidDecisions :
          (Action(reportId, action) /\ Len(actionedReports') > Len(actionedReports)) =>
              \A i \in DOMAIN actionedReports : actionedReports[i].id # reportId.str]_vars

\* C7 as claimed: no two reports of reports and actionedReports have the same id.
C7_UniqueIds ==
    LET all == reports \o actionedReports IN
    \A i, j \in DOMAIN all : i # j => all[i].id # all[j].id

\* C8: a submit answered 201 appends one report to reports and leaves the
\* reports before it and actionedReports as they were; the new report has status
\* pending and the id of the response, and is in reports once.
C8_SubmitAppendsOne ==
    [][(res = NoResponse /\ res'.route = "/report" /\ res'.status = 201) =>
          LET new == reports'[Len(reports')] IN
          /\ Len(reports') = Len(reports) + 1
          /\ \A i \in DOMAIN reports : reports'[i] = reports[i]
          /\ new.status = PendingText
          /\ new.id = res'.report_id
          /\ Count(reports', new.ref) = 1
          /\ Count(reports, new.ref) = 0
          /\ actionedReports' = actionedReports]_vars

\* C8 witness: a 201 was sent for a second report while the first is actioned.
C8_Witness ==
    /\ res.route = "/report"
    /\ res.status = 201
    /\ Len(reports) = 1
    /\ Len(actionedReports) = 1

\* the bodies C9 is about
BadBody(b) ==
    \/ b.target = undefined \/ b.target = null
    \/ b.reporter = undefined \/ b.reporter = null
    \/ b.context = undefined \/ b.context = JsStr(<<>>)
    \/ typeof(b.context) # "string"

\* C9: a submit the limiter admits whose target or reporter is missing or null,
\* or whose context is missing, empty or not text, is answered 400, changes
\* neither collection and calls no webhook.
C9_BadBodyRejected ==
    [][\A ip \in IPs, b \in Bodies, bytes \in RandomBytes :
          (/\ Submit(ip, b.target, b.reporter, b.context, b.reason, bytes)
           /\ hits[ip] < RateLimitMax
           /\ BadBody(b)) =>
              /\ res'.route = "/report"
              /\ res'.status = 400
              /\ reports' = reports
              /\ actionedReports' = actionedReports
              /\ webhookCalls' = <<>>]_vars

\* C9 witness: a 400 for the field types was sent while reports are stored.
C9_Witness ==
    /\ res.route = "/report"
    /\ res.status = 400
    /\ res.error = "Invalid field types: target and reporter must be valid numbers, context must be string"
    /\ Len(reports) > 0
    /\ Len(actionedReports) > 0

isFinite(x) == x.k = "fin"

\* C10 as claimed: every stored report has a finite target and a finite reporter.
C10_FiniteIdentifiers ==
    LET all == reports \o actionedReports IN
    \A i \in DOMAIN all : isFinite(all[i].target) /\ isFinite(all[i].reporter)

\* C11 as claimed: every stored report has a context that is not empty once
\* trimmed, so a submit whose context is empty or blank stores nothing.
C11_ContextNeverBlank ==
    LET all == reports \o actionedReports IN
    \A i \in DOMAIN all : trim(all[i].context) # <<>>

\* C12: within one window every POST /report from an address is counted for
\* that address alone, whatever its body; the first RateLimitMax requests of an
\* address reach the handler (201 for the valid body, 400 for the invalid one)
\* and every later one is answered 429, stores nothing and calls no webhook.
C12_LimitPerAddress ==
    [][\A ip \in LimiterIPs, b \in LimiterBodies, bytes \in RandomBytes :
          Submit(ip, b.target, b.reporter, b.context, b.reason, bytes) =>
              /\ hits'[ip] = hits[ip] + 1
              /\ \A other \in LimiterIPs \ {ip} : hits'[other] = hits[other]
              /\ res'.route = "/report"
              /\ hits[ip] < RateLimitMax =>
                     res'.status = IF b = ValidBody THEN 201 ELSE 400
              /\ hits[ip] >= RateLimitMax =>
                     /\ res'.status = 429
                     /\ reports' = reports
                     /\ actionedReports' = actionedReports
                     /\ webhookCalls' = <<>>]_vars

\* C12 witness: a report of the second address was accepted after the first
\* address had made two requests over its limit.
C12_Witness ==
    /\ hits["10.0.0.1"] = RateLimitMax + 2
    /\ hits["10.0.0.2"] <= RateLimitMax
    /\ res.status = 201
    /\ reports[Len(reports)].ip = "10.0.0.2"

\* an approve request on a pending report is what this step handles
ApproveSucceeds ==
    \E reportId \in ActionIds : Action(reportId, JsStr(ApprovedText)) /\ InPending(reportId)

C14_NoticeTellsDecision ==
    \A i \in DOMAIN webhookCalls :
        (/\ webhookCalls[i].URL = CONFIG.ACTIONS_WEBHOOK
         /\ webhookCalls[i].Content.title # "New Report"
         /\ LastActioned.status = DeniedText) =>
            webhookCalls[i].Content #
                ActionText(body(LastActioned), LastActioned.target, LastActioned.reporter)

\* C15 as claimed: the handler of a successful approve writes its 200 response
\* in the step that actions the report, with no answer of the ban-list store
\* (getContent, createOrUpdateFileContents) awaited before it.
C15_ApproveAnswersWithoutSync ==
    [][ApproveSucceeds => res' = ActionOk(ApprovedText)]_vars

\* C16: when the POST of a FireWebhook call settles, whether answered 2xx or
\* not, failed in DNS, refused, timed out, or never made for an unset URL, the
\* response of the request that made the call and both collections are as
\* they were, and every outcome the URL allows leads to the same state.
C16_DeliveryChangesNothing ==
    [][\A outcome \in AllFetchOutcomes :
          FireWebhookSettles(outcome) =>
              /\ res' = res
              /\ reports' = reports
              /\ actionedReports' = actionedReports
              /\ \A other \in FetchOutcomes(Head(webhookCalls).URL) :
                     FireWebhookSettles(other)]_vars

\* C16 witness: the notice of a denial has settled and the 200 of the denial
\* stands.
C16_Witness ==
    /\ env = FullEnv
    /\ res = ActionOk(DeniedText)
    /\ webhookCalls = <<>>
    /\ LastActioned.status = DeniedText

\* C17: whatever getContent and createOrUpdateFileContents answer (a failed
\* read, a file that does not parse, a write rejected for a stale sha or lost
\* in the network), the report of the call stays in actionedReports with status
\* approved, both collections are left as they were, and the handler that
\* awaited the call answers 200.
C17_SyncFailureKeepsTransition ==
    [][/\ \A sync \in syncs :
             \E i \in DOMAIN actionedReports' :
                 actionedReports'[i] = sync.report /\ sync.report.status = ApprovedText
       /\ \A sync \in syncs, result \in {"ok", "throws"} :
             GetContentReturns(sync, result) =>
                 reports' = reports /\ actionedReports' = actionedReports
       /\ \A sync \in syncs, delivered \in BOOLEAN :
             PutReturns(sync, delivered) =>
                 /\ reports' = reports
                 /\ actionedReports' = actionedReports
                 /\ res' = ActionOk(ApprovedText)]_vars

\* C17 witness: two approvals were answered 200 and the file holds the entry
\* of one of them only.
C17_Witness ==
    /\ res = ActionOk(ApprovedText)
    /\ syncs = {}
    /\ Len(actionedReports) = 2
    /\ \A i \in DOMAIN actionedReports : actionedReports[i].status = ApprovedText
    /\ Len(ghFile.banned_users) = 1

\* GITHUB_ENABLED is 'true' and GITHUB_TOKEN is set
FlagOn == env.GITHUB_ENABLED = JsStr(TrueText)
HasCredential == typeof(env.GITHUB_TOKEN) = "string" /\ env.GITHUB_TOKEN.str # <<>>

\* C18: with the flag off or no token, no call of addToGitHubBanList is ever
\* suspended at a request to GitHub and the file stays as it is.
C18_NoOpWhenDisabled ==
    [][~(FlagOn /\ HasCredential) =>
          /\ syncs = {}
          /\ syncs' = {}
          /\ ghFile' = ghFile]_vars

\* C18 witness: enabled without a token, two approvals have gone through and
\* the file is the one the server started on.
C18_Witness ==
    /\ env = NoTokenEnv
    /\ Len(actionedReports) = 2
    /\ \A i \in DOMAIN actionedReports : actionedReports[i].status = ApprovedText
    /\ banListCalls = <<LastActioned>>
    /\ ghFile = GarbageFile

\* the configured hashes as a set: the pieces of LOGIN_HASHES between two
\* semicolons or an end, without the blanks around them, the empty ones left out
ConfiguredHashes ==
    IF typeof(env.LOGIN_HASHES) # "string" THEN {}
    ELSE LET s == env.LOGIN_HASHES.str IN
         {trim(SubSeq(s, i, j)) :
             <<i, j>> \in {p \in (1..(Len(s) + 1)) \X (0..Len(s)) :
                              /\ p[1] <= p[2] + 1
                              /\ p[1] = 1 \/ s[p[1] - 1] = ";"
                              /\ p[2] = Len(s) \/ s[p[2] + 1] = ";"
                              /\ \A k \in p[1]..p[2] : s[k] # ";"}} \ {<<>>}

\* C19: POST /auth with a password accepts it (200) exactly when bcrypt
\* verifies it against at least one configured hash, and answers 401 otherwise;
\* so with LOGIN_HASHES unset, empty or made of empty entries every password is
\* refused, and the order of the hashes makes no difference.
C19_ValidIffSomeHashMatches ==
    [][\A password \in AuthPasswords :
          (Auth(password) /\ Truthy(password)) =>
              /\ ValidatePassword(password) <=>
                     \E hash \in ConfiguredHashes : bcryptCompare(password, hash)
              /\ res'.status = IF ValidatePassword(password) THEN 200 ELSE 401
              /\ ConfiguredHashes = {} => res'.status = 401]_vars

\* C19 witness: a password was accepted that only the second of two hashes
\* verifies.
C19_Witness ==
    /\ env.LOGIN_HASHES = JsStr(<<"$", "1", "z", ";", "$", "2", "q">>)
    /\ res.route = "/auth"
    /\ res.status = 200

\* the entries of a file that carry the id of a report
EntriesFor(file, reportData) ==
    Cardinality({i \in DOMAIN file.banned_users :
                    file.banned_users[i].report_id = reportData.id})

\* C20: each call of addToGitHubBanList whose write is committed leaves the
\* file with one more entry of its report than before, whether or not the file
\* had one already; two calls for one report, one after the other, leave two.
C20_EveryCallAppends ==
    [][\A sync \in syncs :
          (PutReturns(sync, TRUE) /\ Accepts(sync.sha)) =>
              EntriesFor(ghFile', sync.report) = EntriesFor(ghFile, sync.report) + 1]_vars

\* C20 witness: after two calls for one report the file has two entries of it.
C20_Witness ==
    /\ syncs = {}
    /\ \E reportData \in BanListReports : EntriesFor(ghFile, reportData) = 2

EntryOf(entry, report) ==
    /\ entry.report_id = report.id
    /\ entry.target_id = report.target
    /\ entry.reporter_id = report.reporter
    /\ entry.reason = report.reason
    /\ entry.context = report.context

C23_AppendOnly ==
    [][ghFile' # ghFile =>
          LET old == ghFile.banned_users
              new == ghFile'.banned_users
          IN /\ Len(new) = Len(old) + 1
             /\ \A k \in DOMAIN old : new[k] = old[k]]_vars

\* C23 witness: a first call has committed its entry while a second one, which
\* read the file before that, is about to write.
C23_Witness ==
    /\ Len(ghFile.banned_users) = 1
    /\ \E sync \in syncs :
          /\ sync.pc = "createOrUpdateFileContents"
          /\ sync.sha # Sha(ghFile)
          /\ Len(sync.content.banned_users) = 1

\* C24 as claimed: a submit the limiter admits is answered 201 with one report
\* appended, or 400 with reports as it was, whatever its body; so also when
\* target, reporter and context are valid and reason is missing.
C24_SubmitEnds201Or400 ==
    [][\A ip \in IPs, b \in Bodies :
          (/\ Submit(ip, b.target, b.reporter, b.context, b.reason, RequestBytes)
           /\ hits[ip] < RateLimitMax) =>
              \/ res'.status = 201 /\ Len(reports') = Len(reports) + 1
              \/ res'.status = 400 /\ reports' = reports]_vars

\* C25: an action request without a reportId, without a decision or with a
\* decision other than approved and denied is answered 400, whether its id is
\* pending, actioned or unknown; it changes neither collection, calls no webhook
\* and does not call addToGitHubBanList.
C25_InvalidActionRejected ==
    [][\A reportId \in ActionIds, action \in ActionVals :
          (/\ Action(reportId, action)
           /\ reportId = undefined \/ action \notin ValidDecisions) =>
              /\ res'.route = "/api/action"
              /\ res'.status = 400
              /\ reports' = reports
              /\ actionedReports' = actionedReports
              /\ webhookCalls' = <<>>
              /\ banListCalls' = <<>>
              /\ syncs' = syncs
              /\ ghFile' = ghFile]_vars

\* C25 witness: a 400 was sent to an action request while a report is pending
\* and another is actioned.
C25_Witness ==
    /\ res.route = "/api/action"
    /\ res.status = 400
    /\ Len(reports) > 0
    /\ Len(actionedReports) > 0

\* the file is not the one whose sha the call holds
Stale(sync) == ghFile.kind # "absent" /\ sync.sha # Sha(ghFile)

\* C26: a call of addToGitHubBanList makes one getContent and then one
\* createOrUpdateFileContents that carries the sha of that read (none when the
\* read gave none), and is over when the write is answered; a write whose sha
\* is not the sha of the file as it stands leaves the file as it is, and the
\* call is not started again.
C26_SingleAttempt ==
    [][/\ \A sync \in syncs, result \in {"ok", "throws"} :
             GetContentReturns(sync, result) =>
                 \E next \in syncs' :
                     /\ syncs' = (syncs \ {sync}) \cup {next}
                     /\ next.report = sync.report
                     /\ next.pc = "createOrUpdateFileContents"
                     /\ next.sha = IF result = "ok" THEN Sha(ghFile) ELSE NoSha
       /\ \A sync \in syncs, delivered \in BOOLEAN :
             PutReturns(sync, delivered) =>
                 /\ sync.pc = "createOrUpdateFileContents"
                 /\ syncs' = syncs \ {sync}
                 /\ Stale(sync) => ghFile' = ghFile]_vars

\* C26 witness: of two approved reports with different ids the file has the
\* entry of the second only, and no call is left.
C26_Witness ==
    /\ syncs = {}
    /\ Len(actionedReports) = 2
    /\ \A i \in DOMAIN actionedReports : actionedReports[i].status = ApprovedText
    /\ actionedReports[1].id # actionedReports[2].id
    /\ Len(ghFile.banned_users) = 1
    /\ ghFile.banned_users[1].report_id = actionedReports[2].id

\* C27 as claimed: when getContent fails although the file exists (a network
\* or a server error, not a 404), the call ends there and issues no
\* createOrUpdateFileContents.
C27_NoPutAfterFailedRead ==
    [][\A sync \in syncs :
          (GetContentReturns(sync, "throws") /\ ghFile.kind # "absent") =>
              \A next \in syncs' :
                  ~(next.report = sync.report /\ next.pc = "createOrUpdateFileContents")]_vars

\* C28 as claimed: the notice of an action has the target and the reporter of
\* the report just actioned, and its context as body text.
C28_NoticeCarriesReport ==
    \A i \in DOMAIN webhookCalls :
        webhookCalls[i].Content.title # "New Report" =>
            /\ webhookCalls[i].Content.target = LastActioned.target
            /\ webhookCalls[i].Content.reporter = LastActioned.reporter
            /\ webhookCalls[i].Content.bodyText = LastActioned.context

\* C29: a handler that answers 201 to a submit has called FireWebhook once,
\* for REPORTS_WEBHOOK, with the number of pending reports after the push; one
\* that moves a report, approved or denied, has called it once, for
\* ACTIONS_WEBHOOK; one that answers 400, 404 or 429 has not called it.  A call
\* is over when its POST settles, failed or not, and for an empty URL it
\* settles without a request; no other step makes or repeats a call.
C29_OneNoticePerSuccess ==
    [][/\ (res = NoResponse /\ res'.route = "/report" /\ res'.status = 201) =>
             webhookCalls' = <<[Content |-> NewReportText(Len(reports')),
                                URL |-> CONFIG.REPORTS_WEBHOOK]>>
       /\ Len(reports') = Len(reports) + 1 => res'.status = 201
       /\ Len(actionedReports') > Len(actionedReports) =>
             /\ Len(webhookCalls') = 1
             /\ webhookCalls'[1].URL = CONFIG.ACTIONS_WEBHOOK
             /\ webhookCalls'[1].Content.title # "New Report"
       /\ (res = NoResponse /\ res'.status \in {400, 404, 429}) => webhookCalls' = <<>>
       /\ (Len(reports') = Len(reports) /\ Len(actionedReports') = Len(actionedReports)) =>
             IF webhookCalls = <<>> THEN webhookCalls' = <<>>
             ELSE webhookCalls' \in {webhookCalls, Tail(webhookCalls), <<>>}
       /\ \A outcome \in AllFetchOutcomes :
             FireWebhookSettles(outcome) =>
                 /\ webhookCalls' = Tail(webhookCalls)
                 /\ Head(webhookCalls).URL = JsStr(<<>>) => outcome = "TypeError"]_vars

\* C29 witness: with the webhooks set, the second submit has made one call
\* that tells of one pending report, the first report being actioned.
C29_Witness ==
    /\ env = HooksEnv
    /\ res.status = 201
    /\ Len(actionedReports) = 1
    /\ webhookCalls = <<[Content |-> NewReportText(1), URL |-> HookA]>>

\* list without its k-th element
Without(list, k) == SubSeq(list, 1, k - 1) \o SubSeq(list, k + 1, Len(list))

\* C30: reports is in submission order and actionedReports in the order of
\* the actions: a submit appends at the end of reports, an action takes one
\* report out of reports, leaving the others in their order, and appends it at
\* the end of actionedReports, no other step touches either, and GET
\* /api/reports answers with both as they are.
C30_OrderPreserved ==
    [][/\ \A i, j \in DOMAIN reports' : i < j => reports'[i].ref < reports'[j].ref
       /\ \/ reports' = reports /\ actionedReports' = actionedReports
          \/ /\ actionedReports' = actionedReports
             /\ Len(reports') = Len(reports) + 1
             /\ SubSeq(reports', 1, Len(reports)) = reports
          \/ /\ Len(actionedReports') = Len(actionedReports) + 1
             /\ SubSeq(actionedReports', 1, Len(actionedReports)) = actionedReports
             /\ \E k \in DOMAIN reports :
                   /\ reports' = Without(reports, k)
                   /\ actionedReports'[Len(actionedReports')].ref = reports[k].ref
       /\ ListReports => res'.pending = reports /\ res'.actioned = actionedReports]_vars

\* C30 witness: a listing shows the second of three reports actioned and
\* the first and the third pending, in that order.
C30_Witness ==
    /\ res.route = "/api/reports"
    /\ Len(res.actioned) = 1
    /\ Len(res.pending) = 2
    /\ res.pending[1].ref < res.actioned[1].ref
    /\ res.actioned[1].ref < res.pending[2].ref

\* the fields a report has from its creation
SameFromCreation(a, b) ==
    /\ a.id = b.id
    /\ a.target = b.target
    /\ a.reporter = b.reporter
    /\ a.context = b.context
    /\ a.reason = b.reason
    /\ a.timestamp = b.timestamp
    /\ a.ip = b.ip

\* C31: in every step, every report of reports and actionedReports is there
\* afterwards with the fields it has from its creation; it is the same in all
\* fields, unless it is the one pending report the step has appended to
\* actionedReports, which may differ in status and actionedAt.  So an action
\* changes two fields of one report, and submit, list and auth change none.
C31_ActionChangesStatusOnly ==
    [][LET before == reports \o actionedReports
           after == reports' \o actionedReports'
           moved == Len(actionedReports') = Len(actionedReports) + 1
       IN \A i \in DOMAIN before :
              \E j \in DOMAIN after :
                  /\ after[j].ref = before[i].ref
                  /\ SameFromCreation(after[j], before[i])
                  /\ \/ after[j] = before[i]
                     \/ /\ moved
                        /\ i <= Len(reports)
                        /\ j = Len(after)]_vars

\* C31 witness: a report was actioned at a later instant than it was created,
\* while another report is pending.
C31_Witness ==
    /\ Len(reports) = 1
    /\ Len(actionedReports) = 1
    /\ actionedReports[1].timestamp < actionedReports[1].actionedAt

====
